---- MODULE Spec2Model ----
(***************************************************************************)
(* A model of archivotron's PathGenerator (archivotron/PathGenerator.py):  *)
(* the builder, NameComponent, InclusionRule and gen_path with its         *)
(* delimiter normalisation.                                                *)
(*                                                                         *)
(* A Python str is a sequence of one-character strings, so that            *)
(* concatenation, str.split and str.join are computed character by         *)
(* character.  A dict is a function whose DOMAIN is its key set.           *)
(***************************************************************************)
EXTENDS Integers, Sequences, FiniteSets, TLC

\* Python's None: a value that is no str of the model (its one element is
\* not a single character).
None == <<"None">>

(***************************************************************************)
(* Bounds of the model and the sets the inputs are drawn from.             *)
(***************************************************************************)
MaxComponents == 3
MaxRules == 2

Keys == {<<"a">>, <<"b">>}
Values == {<<"x">>, <<"y", "_", "_", "y">>}
RootArgs == {None, <<>>, <<"r">>}
AttributeSepArgs == {<<"_">>}
KvSepArgs == {<<"-">>}
FileSepArgs == {None, <<"/">>}
OsPathSep == {<<"/">>}
DelimiterArgs == {None}
OverrideArgs == {<<"+">>, <<>>}
HashSeeds == 0 .. 1

RuleKeyArgs == {<<"a">>}
IncludesArgs == {{<<"a">>}, {<<"b">>}}

\* The attribute dicts a caller may pass: every partial map Keys -> Values.
AttributeDicts == UNION {[D -> Values] : D \in SUBSET Keys}

\* The value argument of add_inclusion_rule: a str, or a list of str.
RuleValueArgs == {[str |-> <<"x">>],
                  [list |-> << <<"x">>, <<"y", "_", "_", "y">> >>]}

VARIABLES
    root,           \* the root argument the generator was constructed with
    hashseed,       \* the process's string-hash seed (set iteration order)
    _attributes,    \* set of registered attribute names
    _components,    \* list of str | NameComponent
    _terminated,    \* bool
    _attribute_sep,
    _kv_sep,
    _file_sep,
    _rules,         \* list of InclusionRule
    lastCall,       \* the most recent call and its arguments
    outcome         \* what that call returned or raised

vars == <<root, hashseed, _attributes, _components, _terminated,
          _attribute_sep, _kv_sep, _file_sep, _rules, lastCall, outcome>>

(***************************************************************************)
(* Strings.                                                                *)
(***************************************************************************)
RECURSIVE Concat(_)
\* "".join(list)
Concat(list) ==
    IF list = <<>> THEN <<>> ELSE Head(list) \o Concat(Tail(list))

StartsWith(s, d) == Len(s) >= Len(d) /\ SubSeq(s, 1, Len(d)) = d

RECURSIVE SplitFrom(_, _, _)
\* str.split(d) for a non-empty d, scanning left to right; cur is the field
\* being collected.
SplitFrom(s, d, cur) ==
    IF s = <<>> THEN <<cur>>
    ELSE IF StartsWith(s, d)
         THEN <<cur>> \o SplitFrom(SubSeq(s, Len(d) + 1, Len(s)), d, <<>>)
         ELSE SplitFrom(Tail(s), d, Append(cur, Head(s)))

Split(s, d) == SplitFrom(s, d, <<>>)

RECURSIVE Join(_, _)
\* d.join(fields)
Join(d, fields) ==
    IF fields = <<>> THEN <<>>
    ELSE IF Len(fields) = 1 THEN Head(fields)
    ELSE Head(fields) \o d \o Join(d, Tail(fields))

NonEmptyFields(fields) == SelectSeq(fields, LAMBDA x : x # <<>>)

\* True when d occurs in s.
Contains(s, d) == \E i \in 1 .. Len(s) + 1 : StartsWith(SubSeq(s, i, Len(s)), d)

(***************************************************************************)
(* Iteration order of a set of str: fixed by the process's hash seed.      *)
(***************************************************************************)
RECURSIVE Nth(_, _)
Nth(S, n) ==
    LET x == CHOOSE y \in S : TRUE
    IN IF n = 0 THEN x ELSE Nth(S \ {x}, n - 1)

RECURSIVE IterOrderFrom(_, _)
IterOrderFrom(S, seed) ==
    IF S = {} THEN <<>>
    ELSE LET x == Nth(S, seed % Cardinality(S))
         IN <<x>> \o IterOrderFrom(S \ {x}, seed \div Cardinality(S))

IterOrder(S) == IterOrderFrom(S, hashseed)

(***************************************************************************)
(* Results of a call.                                                      *)
(***************************************************************************)
Return(v) == [kind |-> "return", value |-> v, err |-> "", key |-> <<>>, rule |-> 0]
Raise(e, k, r) == [kind |-> "raise", value |-> <<>>, err |-> e, key |-> k, rule |-> r]

IsStr(o) == "str" \in DOMAIN o
Literal(text) == [str |-> text]

(***************************************************************************)
(* NameComponent.                                                          *)
(***************************************************************************)
\* NameComponent.__init__ storing required = True whatever it is given.
NameComponent_always_required(key, kv_delim, value_only, required) ==
    [key |-> key, kv_delim |-> kv_delim, value_only |-> value_only,
     required |-> TRUE]

\* NameComponent.__init__: a value-only component is always required.
NameComponent(key, kv_delim, value_only, required) ==
    [key |-> key,
     kv_delim |-> kv_delim,
     value_only |-> value_only,
     required |-> IF value_only \/ required THEN TRUE ELSE FALSE]

\* NameComponent.name without its check of required.
name_unchecked(self, attributes) ==
    IF self.key \in DOMAIN attributes
    THEN IF self.value_only
         THEN Return(attributes[self.key])
         ELSE Return(self.key \o self.kv_delim \o attributes[self.key])
    ELSE Return(<<>>)

\* NameComponent.name
name(self, attributes) ==
    LET has_key == self.key \in DOMAIN attributes
    IN IF self.required /\ ~has_key
       THEN Raise("MissingRequiredAttribute", self.key, 0)
       ELSE IF has_key
            THEN LET value == attributes[self.key]
                 IN IF self.value_only
                    THEN Return(value)
                    ELSE Return(self.key \o self.kv_delim \o value)
            ELSE Return(<<>>)

(***************************************************************************)
(* InclusionRule.                                                          *)
(***************************************************************************)
\* InclusionRule.__init__: a str value is wrapped into a one-element list,
\* then value and includes are turned into sets.
InclusionRule(key, value, includes) ==
    [key |-> key,
     value |-> IF IsStr(value)
               THEN {value.str}
               ELSE {value.list[i] : i \in 1 .. Len(value.list)},
     includes |-> includes]

\* InclusionRule.check on the dict whose keys, in iteration order, are keys
\* and whose values are those of attributes; n is the rule's position in
\* _rules, recorded in the error.
check(self, keys, attributes, n) ==
    IF ~(\E i \in 1 .. Len(keys) : keys[i] = self.key)
    THEN Return(None)
    ELSE LET val == attributes[self.key]
         IN IF val \notin self.value
            THEN Return(None)
            ELSE LET disallowed ==
                         SelectSeq(keys, LAMBDA k : k \notin self.includes)
                 IN IF disallowed = <<>>
                    THEN Return(None)
                    ELSE Raise("RuleViolation", Head(disallowed), n)

(***************************************************************************)
(* PathGenerator: rendering.                                               *)
(***************************************************************************)
\* PathGenerator._str
_str(o, att) == IF IsStr(o) THEN Return(o.str) ELSE name(o, att)

\* The set of delimiters _strip_repeat_delimiters collects.
Delimiters(components) ==
    {IF IsStr(components[i]) THEN components[i].str ELSE components[i].kv_delim :
        i \in 1 .. Len(components)}

\* A pass that splits and joins again, keeping the empty fields.
StripOne_keeping_empty(path, d) ==
    IF d # <<>> THEN Join(d, Split(path, d)) ELSE path

\* One pass of the loop body of _strip_repeat_delimiters.
StripOne(path, d) ==
    IF d # <<>> THEN Join(d, NonEmptyFields(Split(path, d))) ELSE path

RECURSIVE StripAll(_, _)
StripAll(path, ds) ==
    IF ds = <<>> THEN path ELSE StripAll(StripOne(path, Head(ds)), Tail(ds))

\* PathGenerator._strip_repeat_delimiters: the delimiters are visited in
\* the iteration order of a set.
_strip_repeat_delimiters(path) ==
    StripAll(path, IterOrder(Delimiters(_components)))

RECURSIVE LastRaise(_)
\* The last raise in a list of results, as if every element were evaluated
\* and the latest exception kept.
LastRaise(results) ==
    IF results = <<>> THEN Return(None)
    ELSE IF LastRaise(Tail(results)).kind = "raise"
         THEN LastRaise(Tail(results))
         ELSE IF Head(results).kind = "raise" THEN Head(results)
         ELSE Return(None)

RECURSIVE FirstRaise(_)
\* The first raise in a list of results, or Return(None) when there is none.
FirstRaise(results) ==
    IF results = <<>> THEN Return(None)
    ELSE IF Head(results).kind = "raise" THEN Head(results)
    ELSE FirstRaise(Tail(results))

\* The keys of gen_path's subset dict, in the order the dict holds them:
\* the iteration order of the set _attributes.
subset_keys(attributes) ==
    SelectSeq(IterOrder(_attributes), LAMBDA k : k \in DOMAIN attributes)

\* gen_path past its first check, with the components rendered before the
\* rules are checked.
gen_path_body_components_first(attributes) ==
    LET checks == [n \in 1 .. Len(_rules) |->
                      check(_rules[n], subset_keys(attributes), attributes, n)]
        strs == [i \in 1 .. Len(_components) |->
                      _str(_components[i], attributes)]
    IN IF FirstRaise(strs).kind = "raise"
       THEN FirstRaise(strs)
       ELSE IF FirstRaise(checks).kind = "raise"
            THEN FirstRaise(checks)
            ELSE Return(_strip_repeat_delimiters(
                    Concat([i \in 1 .. Len(strs) |-> strs[i].value])))

\* PathGenerator.gen_path past its first check: the subset, the rules, the
\* components, the except clause and the normalisation.
gen_path_body(attributes) ==
    LET checks == [n \in 1 .. Len(_rules) |->
                      check(_rules[n], subset_keys(attributes), attributes, n)]
        strs == [i \in 1 .. Len(_components) |->
                      _str(_components[i], attributes)]
        unknown == SelectSeq(IterOrder(DOMAIN attributes),
                             LAMBDA k : k \notin _attributes)
    IN IF FirstRaise(checks).kind = "raise"
       THEN FirstRaise(checks)
       ELSE IF FirstRaise(strs).kind = "raise"
            THEN IF FirstRaise(strs).err = "KeyError"
                 \* the except KeyError clause, scanning the dict's keys;
                 \* nothing above raises KeyError, so it is never entered
                 THEN IF unknown # <<>>
                      THEN Raise("UnknownAttribute", Head(unknown), 0)
                      ELSE Raise("UnboundLocalError", <<>>, 0)
                 ELSE FirstRaise(strs)
            ELSE Return(_strip_repeat_delimiters(
                    Concat([i \in 1 .. Len(strs) |-> strs[i].value])))

\* gen_path without its check of _terminated.
gen_path_ungated(attributes) == gen_path_body(attributes)

\* PathGenerator.gen_path
gen_path(attributes) ==
    IF ~_terminated
    THEN Raise("NotTerminated", <<>>, 0)
    ELSE gen_path_body(attributes)

(***************************************************************************)
(* PathGenerator: construction and the builder's operations.               *)
(***************************************************************************)
\* A constructor that treats a root of None as it treats the root "".
Init_none_as_empty ==
    \E r \in RootArgs, attribute_sep \in AttributeSepArgs,
       kv_sep \in KvSepArgs, file_sep \in FileSepArgs, sep \in OsPathSep :
        /\ file_sep # None => sep = file_sep
        /\ root = r
        /\ hashseed \in HashSeeds
        /\ _attributes = {}
        /\ _terminated = FALSE
        /\ _attribute_sep = attribute_sep
        /\ _kv_sep = kv_sep
        /\ _file_sep = sep
        /\ _components = IF r = None \/ r = <<>> THEN <<Literal(sep)>>
                         ELSE <<Literal(r \o sep)>>
        /\ _rules = <<>>
        /\ lastCall = [op |-> "__init__"]
        /\ outcome = Return(None)

\* PathGenerator.__init__.  A file_sep of None takes os.path.sep, which is
\* the platform's; a file_sep other than "/" and "\" raises and constructs
\* nothing.  The hash seed is drawn once, when the process starts.
Init ==
    \E r \in RootArgs, attribute_sep \in AttributeSepArgs,
       kv_sep \in KvSepArgs, file_sep \in FileSepArgs, sep \in OsPathSep :
        /\ file_sep # None => sep = file_sep
        /\ root = r
        /\ hashseed \in HashSeeds
        /\ _attributes = {}
        /\ _terminated = FALSE
        /\ _attribute_sep = attribute_sep
        /\ _kv_sep = kv_sep
        /\ _file_sep = sep
        /\ _components = IF r = None THEN <<>>
                         ELSE IF r = <<>> THEN <<Literal(sep)>>
                         ELSE <<Literal(r \o sep)>>
        /\ _rules = <<>>
        /\ lastCall = [op |-> "__init__"]
        /\ outcome = Return(None)

\* add_component appending the component alone, whatever precedes it.
Appended_alone(nc) == <<nc>>

\* What add_component appends to _components.
Appended(nc) ==
    IF Len(_components) = 0
    THEN <<nc>>
    ELSE IF ~IsStr(_components[Len(_components)])
         THEN <<Literal(_attribute_sep), nc>>
         ELSE <<nc>>

\* add_component without the registration of its key.
add_component_unregistered(key, delimiter, value_only, required) ==
    LET nc == NameComponent(key,
                            IF delimiter = None THEN _kv_sep ELSE delimiter,
                            value_only, required)
    IN /\ Len(_components) + Len(Appended(nc)) <= MaxComponents
       /\ _components' = _components \o Appended(nc)
       /\ lastCall' = [op |-> "add_component", key |-> key,
                       delimiter |-> delimiter, value_only |-> value_only,
                       required |-> required]
       /\ outcome' = Return(None)
       /\ UNCHANGED <<root, hashseed, _attributes, _terminated,
                      _attribute_sep, _kv_sep, _file_sep, _rules>>

\* PathGenerator.add_component
add_component(key, delimiter, value_only, required) ==
    LET nc == NameComponent(key,
                            IF delimiter = None THEN _kv_sep ELSE delimiter,
                            value_only, required)
    IN /\ Len(_components) + Len(Appended(nc)) <= MaxComponents
       /\ _attributes' = _attributes \cup {key}
       /\ _components' = _components \o Appended(nc)
       /\ lastCall' = [op |-> "add_component", key |-> key,
                       delimiter |-> delimiter, value_only |-> value_only,
                       required |-> required]
       /\ outcome' = Return(None)
       /\ UNCHANGED <<root, hashseed, _terminated, _attribute_sep, _kv_sep,
                      _file_sep, _rules>>

\* PathGenerator.delimiter_override
delimiter_override(delimiter) ==
    /\ Len(_components) < MaxComponents
    /\ _components' = Append(_components, Literal(delimiter))
    /\ lastCall' = [op |-> "delimiter_override", delimiter |-> delimiter]
    /\ outcome' = Return(None)
    /\ UNCHANGED <<root, hashseed, _attributes, _terminated, _attribute_sep,
                   _kv_sep, _file_sep, _rules>>

\* PathGenerator.add_filesep
add_filesep ==
    /\ Len(_components) < MaxComponents
    /\ _components' = Append(_components, Literal(_file_sep))
    /\ lastCall' = [op |-> "add_filesep"]
    /\ outcome' = Return(None)
    /\ UNCHANGED <<root, hashseed, _attributes, _terminated, _attribute_sep,
                   _kv_sep, _file_sep, _rules>>

\* terminate flipping the flag instead of setting it.
terminate_toggling ==
    /\ _terminated' = ~_terminated
    /\ lastCall' = [op |-> "terminate"]
    /\ outcome' = Return(None)
    /\ UNCHANGED <<root, hashseed, _attributes, _components, _attribute_sep,
                   _kv_sep, _file_sep, _rules>>

\* PathGenerator.terminate
terminate ==
    /\ _terminated' = TRUE
    /\ lastCall' = [op |-> "terminate"]
    /\ outcome' = Return(None)
    /\ UNCHANGED <<root, hashseed, _attributes, _components, _attribute_sep,
                   _kv_sep, _file_sep, _rules>>

\* PathGenerator.add_inclusion_rule
add_inclusion_rule(key, value, attributes) ==
    /\ Len(_rules) < MaxRules
    /\ _rules' = Append(_rules, InclusionRule(key, value, attributes))
    /\ lastCall' = [op |-> "add_inclusion_rule", key |-> key,
                    value |-> value, attributes |-> attributes]
    /\ outcome' = Return(None)
    /\ UNCHANGED <<root, hashseed, _attributes, _components, _terminated,
                   _attribute_sep, _kv_sep, _file_sep>>

\* A call of gen_path that keeps the subset's keys as the registry.
GenPath_retaining(attributes) ==
    /\ lastCall' = [op |-> "gen_path", attributes |-> attributes,
                    attributes_after |-> attributes]
    /\ outcome' = gen_path(attributes)
    /\ _attributes' = _attributes \cap DOMAIN attributes
    /\ UNCHANGED <<root, hashseed, _components, _terminated,
                   _attribute_sep, _kv_sep, _file_sep, _rules>>

\* A call of gen_path: the generator is left as it is, and so is the
\* caller's dict, which gen_path only reads (attributes_after is the dict
\* as the call leaves it).
GenPath(attributes) ==
    /\ lastCall' = [op |-> "gen_path", attributes |-> attributes,
                    attributes_after |-> attributes]
    /\ outcome' = gen_path(attributes)
    /\ UNCHANGED <<root, hashseed, _attributes, _components, _terminated,
                   _attribute_sep, _kv_sep, _file_sep, _rules>>

Next ==
    \/ \E key \in Keys, delimiter \in DelimiterArgs,
          value_only \in BOOLEAN, required \in BOOLEAN :
            add_component(key, delimiter, value_only, required)
    \/ \E delimiter \in OverrideArgs : delimiter_override(delimiter)
    \/ add_filesep
    \/ terminate
    \/ \E key \in RuleKeyArgs, value \in RuleValueArgs,
          attributes \in IncludesArgs :
            add_inclusion_rule(key, value, attributes)
    \/ \E attributes \in AttributeDicts : GenPath(attributes)

Spec == Init /\ [][Next]_vars

(***************************************************************************)
(* Properties.  A state whose lastCall is gen_path is the state right      *)
(* after that call: outcome is its result, and the generator is the one    *)
(* it was called on, since gen_path changes none of its fields.            *)
(***************************************************************************)
Rendered == lastCall.op = "gen_path"

Mutators ==
    {"add_component", "delimiter_override", "add_filesep", "add_inclusion_rule"}

\* The positions of the NameComponents in _components.
ComponentIndexes == {i \in 1 .. Len(_components) : ~IsStr(_components[i])}

\* The keys of attributes that are registered attribute names.
RegisteredKeys(attributes) == DOMAIN attributes \cap _attributes

\* Rule r is violated by attributes, read on the registry-filtered subset:
\* the trigger key is there with a trigger value, and some key of the
\* subset is not among the allowed keys.
Violates(r, attributes) ==
    /\ r.key \in RegisteredKeys(attributes)
    /\ attributes[r.key] \in r.value
    /\ \E k \in RegisteredKeys(attributes) : k \notin r.includes

NoRuleViolated(attributes) ==
    \A n \in 1 .. Len(_rules) : ~Violates(_rules[n], attributes)

\* The required NameComponents whose key attributes lacks.
MissingRequired(attributes) ==
    {i \in ComponentIndexes :
        _components[i].required /\ _components[i].key \notin DOMAIN attributes}

Min(S) == CHOOSE i \in S : \A j \in S : i <= j

\* C1: before terminate() has been called, gen_path raises the
\* not-terminated error for every attribute dict and returns no path; a
\* gen_path that returns a path was called on a terminated generator.
C1_RenderNeedsTerminate ==
    Rendered =>
        /\ ~_terminated => outcome = Raise("NotTerminated", <<>>, 0)
        /\ outcome.kind = "return" => _terminated

\* C1 witness: gen_path called with a non-empty dict on a generator that
\* has a component and was never terminated.
C1_Witness ==
    /\ Rendered
    /\ ~_terminated
    /\ ComponentIndexes # {}
    /\ DOMAIN lastCall.attributes # {}
    /\ outcome.err = "NotTerminated"

\* C2: once terminate() has been called, every mutator raises
\* AlreadyTerminated and leaves _components, _attributes and _rules as
\* they were.
C2_MutatorsFailAfterTerminate ==
    [][(_terminated /\ lastCall'.op \in Mutators) =>
            /\ outcome'.kind = "raise"
            /\ outcome'.err = "AlreadyTerminated"
            /\ UNCHANGED <<_components, _attributes, _rules>>]_vars

\* C3: on a terminated generator, gen_path of a dict with a key that is no
\* registered attribute name raises the unknown-attribute error naming
\* such a key.
C3_UnknownAttributeRejected ==
    (/\ Rendered
     /\ _terminated
     /\ DOMAIN lastCall.attributes \ _attributes # {}) =>
        /\ outcome.kind = "raise"
        /\ outcome.err = "UnknownAttribute"
        /\ outcome.key \in DOMAIN lastCall.attributes \ _attributes

\* C4: on a terminated generator, when the dict violates no rule and lacks
\* the key of a required NameComponent, gen_path raises the
\* missing-required error, naming the key of the first such component,
\* and returns no path.
C4_MissingRequiredRaises ==
    (/\ Rendered
     /\ _terminated
     /\ NoRuleViolated(lastCall.attributes)
     /\ MissingRequired(lastCall.attributes) # {}) =>
        outcome = Raise("MissingRequiredAttribute",
                        _components[Min(MissingRequired(lastCall.attributes))].key,
                        0)

\* C4 witness: a rule is registered and not violated, the dict has a key,
\* and a required component's key is missing from it.
C4_Witness ==
    /\ Rendered
    /\ _terminated
    /\ Len(_rules) > 0
    /\ NoRuleViolated(lastCall.attributes)
    /\ DOMAIN lastCall.attributes # {}
    /\ MissingRequired(lastCall.attributes) # {}
    /\ outcome.err = "MissingRequiredAttribute"

\* What a segment stands for in the path: a str verbatim, a NameComponent
\* as key + delimiter + value, or the value alone when value_only; a
\* NameComponent whose key the dict lacks stands for the empty string.
SegmentText(seg, attributes) ==
    IF IsStr(seg) THEN seg.str
    ELSE IF seg.key \notin DOMAIN attributes THEN <<>>
    ELSE IF seg.value_only THEN attributes[seg.key]
    ELSE seg.key \o seg.kv_delim \o attributes[seg.key]

\* The segments from..to of _components, each as SegmentText, concatenated.
SegmentsText(from, to, attributes) ==
    Concat([i \in 1 .. (to - from + 1) |->
                SegmentText(_components[from + i - 1], attributes)])

AllComponentKeysIn(attributes) ==
    \A i \in ComponentIndexes : _components[i].key \in DOMAIN attributes

\* No value of the dict contains a non-empty delimiter of the template.
ValuesDelimiterFree(attributes) ==
    \A k \in DOMAIN attributes :
        \A d \in Delimiters(_components) \ {<<>>} :
            ~Contains(attributes[k], d)

\* C5: on a terminated generator, for a dict that has the key of every
\* NameComponent, violates no rule and has no delimiter of the template in
\* its values, gen_path returns the concatenation of the segments in
\* insertion order, each str verbatim, the leading file-separator str of
\* a generator built with the empty root included.
C5_PathIsConcatenation ==
    (/\ Rendered
     /\ _terminated
     /\ ComponentIndexes # {}
     /\ AllComponentKeysIn(lastCall.attributes)
     /\ NoRuleViolated(lastCall.attributes)
     /\ ValuesDelimiterFree(lastCall.attributes)) =>
        outcome = Return(SegmentsText(1, Len(_components), lastCall.attributes))

\* C6: for a generator constructed with a str root and holding a
\* NameComponent, every path gen_path returns begins with root + _file_sep.
C6_RootPrefixKept ==
    (/\ Rendered
     /\ outcome.kind = "return"
     /\ ComponentIndexes # {}
     /\ root # None) =>
        StartsWith(outcome.value, root \o _file_sep)

\* The NameComponents that are not required and whose key the dict lacks.
AbsentOptional(attributes) ==
    {i \in ComponentIndexes :
        ~_components[i].required /\ _components[i].key \notin DOMAIN attributes}

\* C7 as claimed: a NameComponent added with required=False, whatever its
\* value_only, names itself as the empty string for every dict that lacks
\* its key.
C7_AnyOptionalVanishes ==
    (lastCall.op = "add_component" /\ ~lastCall.required) =>
        \A attributes \in AttributeDicts :
            lastCall.key \notin DOMAIN attributes =>
                name(_components[Len(_components)], attributes) = Return(<<>>)

\* C7: a NameComponent added with required=False and value_only=False
\* names itself as the empty string for every dict that lacks its key,
\* while one added with value_only=True is required whatever its required
\* argument; and gen_path does not fail on a dict that violates no rule
\* and lacks only keys of NameComponents that are not required: it returns
\* the normalised concatenation in which those segments are empty.
C7_OptionalKeyedVanishes ==
    /\ lastCall.op = "add_component" =>
        \A attributes \in AttributeDicts :
            lastCall.key \notin DOMAIN attributes =>
                name(_components[Len(_components)], attributes) =
                    IF ~lastCall.required /\ ~lastCall.value_only
                    THEN Return(<<>>)
                    ELSE Raise("MissingRequiredAttribute", lastCall.key, 0)
    /\ (/\ Rendered
        /\ _terminated
        /\ NoRuleViolated(lastCall.attributes)
        /\ MissingRequired(lastCall.attributes) = {}) =>
            outcome = Return(_strip_repeat_delimiters(
                        SegmentsText(1, Len(_components), lastCall.attributes)))

\* C7 witness: gen_path returned a path for a non-empty dict that lacks the
\* key of a NameComponent that is not required.
C7_Witness ==
    /\ Rendered
    /\ _terminated
    /\ DOMAIN lastCall.attributes # {}
    /\ AbsentOptional(lastCall.attributes) # {}
    /\ outcome.kind = "return"

\* An absent optional NameComponent at i, between two str segments holding
\* the same non-empty delimiter, every other NameComponent having its key.
AbsentBetweenSameDelimiter(i, attributes) ==
    /\ i \in AbsentOptional(attributes)
    /\ 1 < i
    /\ i < Len(_components)
    /\ IsStr(_components[i - 1])
    /\ IsStr(_components[i + 1])
    /\ _components[i - 1].str = _components[i + 1].str
    /\ _components[i - 1].str # <<>>
    /\ \A j \in ComponentIndexes \ {i} :
            _components[j].key \in DOMAIN attributes

\* C8: when an absent optional NameComponent sits between two occurrences
\* of the same non-empty delimiter, the path holds that delimiter exactly
\* once there, the segments before and after being rendered unchanged.
C8_DoubledDelimiterCollapsesToOne ==
    (/\ Rendered
     /\ outcome.kind = "return"
     /\ ValuesDelimiterFree(lastCall.attributes)) =>
        \A i \in 1 .. Len(_components) :
            AbsentBetweenSameDelimiter(i, lastCall.attributes) =>
                outcome.value =
                    SegmentsText(1, i - 1, lastCall.attributes)
                    \o SegmentsText(i + 2, Len(_components), lastCall.attributes)

\* C9: on the registry-filtered subset of the dict, a rule whose trigger
\* key is absent, or mapped to a value outside the trigger values, does
\* not fail; a rule whose trigger key is mapped to a trigger value fails
\* exactly when the subset has a key other than the trigger key that is
\* not among the allowed keys.
C9_RuleIgnoresTriggerKey ==
    (Rendered /\ _terminated) =>
        \A n \in 1 .. Len(_rules) :
            LET r == _rules[n]
                attributes == lastCall.attributes
                fails == check(r, subset_keys(attributes), attributes, n).kind
                            = "raise"
            IN IF r.key \in RegisteredKeys(attributes)
                  /\ attributes[r.key] \in r.value
               THEN fails <=> \E k \in RegisteredKeys(attributes) \ {r.key} :
                                    k \notin r.includes
               ELSE ~fails

\* C10: registering an attribute name that is already registered raises
\* DuplicateAttribute and leaves the registry unchanged.
C10_DuplicateRegistrationFails ==
    [][(lastCall'.op = "add_component" /\ lastCall'.key \in _attributes) =>
            /\ outcome'.kind = "raise"
            /\ outcome'.err = "DuplicateAttribute"
            /\ _attributes' = _attributes]_vars

RECURSIVE Orderings(_)
\* Every order in which the elements of a set can be visited.
Orderings(S) ==
    IF S = {} THEN {<<>>}
    ELSE UNION {{<<x>> \o o : o \in Orderings(S \ {x})} : x \in S}

\* C11: the outcome of gen_path on a terminated generator is fixed by the
\* generator and the dict: the path returned is the one normalisation
\* gives in whatever order it visits the delimiters, so any two calls
\* with the same dict agree.
C11_PathIndependentOfVisitOrder ==
    (Rendered /\ _terminated /\ outcome.kind = "return") =>
        \A o \in Orderings(Delimiters(_components)) :
            outcome.value =
                StripAll(SegmentsText(1, Len(_components), lastCall.attributes), o)

NoAdjacentComponents ==
    \A i \in 1 .. Len(_components) - 1 :
        IsStr(_components[i]) \/ IsStr(_components[i + 1])

\* C12: no two NameComponents are ever adjacent in _components:
\* add_component appends the attribute separator and then the component
\* when the last element is a NameComponent, and the component alone when
\* _components is empty or ends with a str.
C12_NoAdjacentComponents ==
    /\ [](NoAdjacentComponents)
    /\ [][lastCall'.op = "add_component" =>
            LET nc == _components'[Len(_components')]
            IN /\ ~IsStr(nc)
               /\ nc.key = lastCall'.key
               /\ _components' =
                    IF Len(_components) = 0
                       \/ IsStr(_components[Len(_components)])
                    THEN Append(_components, nc)
                    ELSE _components \o <<Literal(_attribute_sep), nc>>]_vars

\* C12 witness: add_component has just put the attribute separator between
\* two NameComponents.
C12_Witness ==
    /\ lastCall.op = "add_component"
    /\ Len(_components) >= 3
    /\ ~IsStr(_components[Len(_components) - 2])
    /\ _components[Len(_components) - 1] = Literal(_attribute_sep)
    /\ ~IsStr(_components[Len(_components)])

\* The positions in _rules of the rules the dict violates, a rule being
\* violated when its check on the registry-filtered subset fails.
ViolatedRules(attributes) ==
    {n \in 1 .. Len(_rules) : Violates(_rules[n], attributes)}

\* C13: on a terminated generator, gen_path fails with a rule violation
\* exactly when at least one registered rule is violated by the
\* registry-filtered subset of the dict, and the violation raised is that
\* of the earliest-registered violated rule, naming a key of the subset
\* that this rule does not allow.
C13_FirstViolatedRuleReported ==
    (Rendered /\ _terminated) =>
        LET V == ViolatedRules(lastCall.attributes)
        IN /\ outcome.err = "RuleViolation" <=> V # {}
           /\ V # {} =>
                /\ outcome.kind = "raise"
                /\ outcome.rule = Min(V)
                /\ outcome.key \in RegisteredKeys(lastCall.attributes)
                                    \ _rules[Min(V)].includes

\* C13 witness: two different rules are registered and the dict violates
\* both; the first one is reported.
C13_Witness ==
    /\ Rendered
    /\ _terminated
    /\ Len(_rules) = 2
    /\ _rules[1] # _rules[2]
    /\ ViolatedRules(lastCall.attributes) = {1, 2}
    /\ outcome.rule = 1

\* C14: gen_path validates in a fixed order: the termination state, then
\* the inclusion rules, then the components.  A dict that violates a rule
\* and also lacks the key of a required NameComponent fails with the rule
\* violation, never with the missing-required error.
C14_ValidationOrder ==
    Rendered =>
        IF ~_terminated
        THEN outcome.err = "NotTerminated"
        ELSE IF ViolatedRules(lastCall.attributes) # {}
             THEN outcome.err = "RuleViolation"
             ELSE IF MissingRequired(lastCall.attributes) # {}
                  THEN outcome.err = "MissingRequiredAttribute"
                  ELSE outcome.kind = "return"

\* C14 witness: the dict violates a rule and lacks a required key, and the
\* rule violation is what gen_path raised.
C14_Witness ==
    /\ Rendered
    /\ _terminated
    /\ ViolatedRules(lastCall.attributes) # {}
    /\ MissingRequired(lastCall.attributes) # {}
    /\ outcome.err = "RuleViolation"

\* C15: termination is one-way: once _terminated is set, no call (mutator,
\* gen_path or another terminate, returning or raising) clears it.
C15_TerminatedStaysTerminated ==
    [][_terminated => _terminated']_vars

\* C15 witness: a mutator has been called on a terminated generator, which
\* is still terminated.
C15_Witness ==
    /\ _terminated
    /\ lastCall.op = "add_component"
    /\ Len(_rules) > 0

\* C16: a call of gen_path, returning or raising, leaves _components,
\* _attributes, _rules and _terminated (and the separators) as they were,
\* and leaves the caller's dict as it was passed.
C16_RenderChangesNothing ==
    [][lastCall'.op = "gen_path" =>
            /\ UNCHANGED <<_components, _attributes, _rules, _terminated,
                           _attribute_sep, _kv_sep, _file_sep>>
            /\ lastCall'.attributes_after = lastCall'.attributes]_vars

\* C16 witness: gen_path has returned a path for a non-empty dict on a
\* generator that holds a rule.
C16_Witness ==
    /\ Rendered
    /\ _terminated
    /\ outcome.kind = "return"
    /\ DOMAIN lastCall.attributes # {}
    /\ Len(_rules) > 0
    /\ ComponentIndexes # {}

\* C17 as stated: a generator constructed with root None starts with
\* _components holding the file separator alone, as one constructed with
\* the root "" does.
C17_NoneRootStartsWithSeparator ==
    (lastCall.op = "__init__" /\ root \in {None, <<>>}) =>
        _components = <<Literal(_file_sep)>>

\* C17 amended: a generator constructed with root None starts with no
\* segment at all; only the root "" starts with the file separator alone,
\* and any other root with the Literal root + file separator.
C17_NoneRootStartsEmpty ==
    lastCall.op = "__init__" =>
        /\ root = None => _components = <<>>
        /\ root = <<>> => _components = <<Literal(_file_sep)>>
        /\ root \notin {None, <<>>} =>
               _components = <<Literal(root \o _file_sep)>>

\* C17 witness: a generator just constructed with root None.
C17_Witness ==
    /\ lastCall.op = "__init__"
    /\ root = None
    /\ _components = <<>>

\* C18: in every state _attributes holds the key of every NameComponent of
\* _components; hence, after gen_path, every key of the dict that names a
\* NameComponent is in the registry-filtered subset, and no error of
\* gen_path names such a key as unknown.
C18_ComponentKeysRegistered ==
    /\ \A i \in ComponentIndexes : _components[i].key \in _attributes
    /\ Rendered =>
          \A i \in ComponentIndexes :
              _components[i].key \in DOMAIN lastCall.attributes =>
                  /\ Contains(subset_keys(lastCall.attributes),
                              <<_components[i].key>>)
                  /\ ~(/\ outcome.kind = "raise"
                       /\ outcome.err = "UnknownAttribute"
                       /\ outcome.key = _components[i].key)

\* C18 witness: gen_path has returned a path for a dict that gives a value
\* to the key of a NameComponent, the only registration of that key being
\* add_component's own.
C18_Witness ==
    /\ Rendered
    /\ _terminated
    /\ outcome.kind = "return"
    /\ \E i \in ComponentIndexes :
          _components[i].key \in DOMAIN lastCall.attributes

\* Every delimiter of _components is one character or empty.
SingleCharDelimiters == \A d \in Delimiters(_components) : Len(d) <= 1

\* C19: on a terminated generator whose non-empty delimiters are all one
\* character, a path gen_path returns holds no delimiter character twice
\* in a row, and neither does the path any other order of visiting the
\* delimiters would give; a value of the dict holding a doubled delimiter
\* is not in the path as it was given.
C19_NoDoubledDelimiterInPath ==
    (Rendered /\ _terminated /\ outcome.kind = "return"
        /\ SingleCharDelimiters) =>
        LET ds == Delimiters(_components) \ {<<>>}
            joined == SegmentsText(1, Len(_components), lastCall.attributes)
        IN /\ \A d \in ds : ~Contains(outcome.value, d \o d)
           /\ \A o \in Orderings(Delimiters(_components)) :
                 \A d \in ds : ~Contains(StripAll(joined, o), d \o d)
           /\ \A i \in ComponentIndexes :
                 LET k == _components[i].key
                 IN (/\ k \in DOMAIN lastCall.attributes
                     /\ \E d \in ds :
                           Contains(lastCall.attributes[k], d \o d)) =>
                        ~Contains(outcome.value, lastCall.attributes[k])

\* C19 witness: gen_path has returned a path for a dict that gives a
\* NameComponent a value holding a doubled delimiter of the generator, all
\* delimiters being one character, two of them different.
C19_Witness ==
    /\ Rendered
    /\ _terminated
    /\ outcome.kind = "return"
    /\ SingleCharDelimiters
    /\ Cardinality(Delimiters(_components) \ {<<>>}) >= 2
    /\ \E i \in ComponentIndexes :
          LET k == _components[i].key
          IN /\ k \in DOMAIN lastCall.attributes
             /\ \E d \in Delimiters(_components) \ {<<>>} :
                   Contains(lastCall.attributes[k], d \o d)

====
